---- MODULE Spec2Model ----
(***************************************************************************)
(* Model of src/src/btc/btc.py: the query/status protocol of               *)
(* BuchiTemperatureController.query and the sampling loop of log_csv, over *)
(* a serial transport whose calls are recorded.                            *)
(*                                                                         *)
(* A str is a sequence of one-character strings, a bytes object is a       *)
(* sequence of 7-bit codes (the port is opened with SEVENBITS).            *)
(***************************************************************************)
EXTENDS Integers, Sequences, FiniteSets, TLC

(***************************************************************************)
(* Bounds of the model.                                                    *)
(***************************************************************************)
\* data rows one destination file may receive over all runs of log_csv
MaxRows == 1
\* invocations of log_csv on the destination file
MaxRuns == 2

(***************************************************************************)
(* Text: str.encode, bytes.decode, str.strip, bytes.startswith, "in".      *)
(***************************************************************************)
Alphabet ==
  { "\t", "\n", "\r", " ", "-", ".", "_",
    "0", "1", "2", "3", "4", "5", "6", "7", "8", "9",
    "a", "d", "e", "i", "k", "m", "n", "o", "p", "r", "s", "t", "u", "v" }

\* the ASCII code of a character (str.encode on 7-bit text)
Ord(c) ==
  CASE c = "\t" -> 9   [] c = "\n" -> 10  [] c = "\r" -> 13  [] c = " " -> 32
    [] c = "-" -> 45   [] c = "." -> 46   [] c = "_" -> 95
    [] c = "0" -> 48   [] c = "1" -> 49   [] c = "2" -> 50   [] c = "3" -> 51
    [] c = "4" -> 52   [] c = "5" -> 53   [] c = "6" -> 54   [] c = "7" -> 55
    [] c = "8" -> 56   [] c = "9" -> 57
    [] c = "a" -> 97   [] c = "d" -> 100  [] c = "e" -> 101  [] c = "i" -> 105
    [] c = "k" -> 107  [] c = "m" -> 109  [] c = "n" -> 110  [] c = "o" -> 111
    [] c = "p" -> 112  [] c = "r" -> 114  [] c = "s" -> 115  [] c = "t" -> 116
    [] c = "u" -> 117  [] c = "v" -> 118

Chr(b) == CHOOSE c \in Alphabet : Ord(c) = b

\* str.encode()
Encode(s) == [i \in 1..Len(s) |-> Ord(s[i])]

\* bytes.decode()
Decode(bs) == [i \in 1..Len(bs) |-> Chr(bs[i])]

\* the characters str.strip() removes at both ends
IsSpace(c) == c \in {" ", "\t", "\n", "\r"}

RECURSIVE LStrip(_)
LStrip(s) ==
  IF s # <<>> /\ IsSpace(Head(s)) THEN LStrip(Tail(s)) ELSE s

RECURSIVE RStrip(_)
RStrip(s) ==
  IF s # <<>> /\ IsSpace(s[Len(s)]) THEN RStrip(SubSeq(s, 1, Len(s) - 1)) ELSE s

\* str.strip()
Strip(s) == RStrip(LStrip(s))

\* bytes.startswith(prefix) / str.startswith(prefix)
StartsWith(s, prefix) ==
  Len(s) >= Len(prefix) /\ SubSeq(s, 1, Len(prefix)) = prefix

\* sub in s
Contains(s, sub) ==
  \E i \in 1..(Len(s) - Len(sub) + 1) : SubSeq(s, i, i + Len(sub) - 1) = sub

\* the index of the first occurrence of sub in s, 0 when there is none
Find(s, sub) ==
  IF Contains(s, sub)
    THEN CHOOSE i \in 1..(Len(s) - Len(sub) + 1) :
           /\ SubSeq(s, i, i + Len(sub) - 1) = sub
           /\ \A j \in 1..(i - 1) : SubSeq(s, j, j + Len(sub) - 1) # sub
    ELSE 0

CR == Encode(<<"\r">>)
CRLF == Encode(<<"\r", "\n">>)
SP == Encode(<<" ">>)
StatusProbe == Encode(<<"s", "t", "a", "t", "u", "s">>) \o CR

(***************************************************************************)
(* Parameters and their formatting (the format specs ".1f" and "d").       *)
(*   [t |-> "none"]              param is None                             *)
(*   [t |-> "int", v |-> n]      the int n                                 *)
(*   [t |-> "float", h |-> k]    the float written k/100, that is, the     *)
(*                               double nearest to k/100                   *)
(***************************************************************************)
NoParam == [t |-> "none"]
IntParam(n) == [t |-> "int", v |-> n]
FloatParam(k) == [t |-> "float", h |-> k]

Abs(n) == IF n < 0 THEN -n ELSE n

Digit(d) == CASE d = 0 -> "0" [] d = 1 -> "1" [] d = 2 -> "2" [] d = 3 -> "3"
              [] d = 4 -> "4" [] d = 5 -> "5" [] d = 6 -> "6" [] d = 7 -> "7"
              [] d = 8 -> "8" [] d = 9 -> "9"

RECURSIVE NatStr(_)
NatStr(n) == IF n < 10 THEN <<Digit(n)>> ELSE NatStr(n \div 10) \o <<Digit(n % 10)>>

RECURSIVE Pow2(_)
Pow2(k) == IF k = 0 THEN 1 ELSE 2 * Pow2(k - 1)

RECURSIVE Pow2Mod100(_)
Pow2Mod100(k) == IF k = 0 THEN 1 ELSE (2 * Pow2Mod100(k - 1)) % 100

\* the exponent p of the double nearest to a/100 (a > 0): 2^p <= a/100 < 2^(p+1)
RECURSIVE BinExpUp(_, _)
BinExpUp(a, p) == IF 100 * Pow2(p + 1) > a THEN p ELSE BinExpUp(a, p + 1)

RECURSIVE BinExpDown(_, _)
BinExpDown(a, k) == IF a * Pow2(k) >= 100 THEN -k ELSE BinExpDown(a, k + 1)

BinExp(a) == IF a >= 100 THEN BinExpUp(a, 0) ELSE BinExpDown(a, 1)

\* A double carries 53 significant bits, so the double nearest to a/100
\* (a > 0) is m / 2^e with e = 52 - BinExp(a)
\* and m the integer nearest to a * 2^e / 100.  The remainder of a * 2^e
\* modulo 100 tells on which side of a/100 the double lies:
\*   0 exactly a/100, -1 below it, 1 above it.
DoubleSide(a) ==
  LET e == 52 - BinExp(a)
      r == ((a % 100) * Pow2Mod100(e)) % 100
  IN  IF a = 0 \/ r = 0 THEN 0 ELSE IF r < 50 THEN -1 ELSE 1

\* RoundTenths on the decimal text, halves going up
RoundTenthsHalfUp(a) == (a + 5) \div 10

\* |x| in tenths after correct rounding of the double to one decimal
\* (exact ties go to the even digit)
RoundTenths(a) ==
  LET q == a \div 10
      r == a % 10
  IN  IF r < 5 THEN q
      ELSE IF r > 5 THEN q + 1
      ELSE IF DoubleSide(a) < 0 THEN q
      ELSE IF DoubleSide(a) > 0 THEN q + 1
      ELSE IF q % 2 = 0 THEN q ELSE q + 1

\* f"{param:.1f}" of an int or a float (both accept the format spec)
FormatF1(param) ==
  IF param.t = "int"
    THEN (IF param.v < 0 THEN <<"-">> ELSE <<>>) \o NatStr(Abs(param.v)) \o <<".", "0">>
    ELSE LET tenths == RoundTenths(Abs(param.h))
         IN  (IF param.h < 0 THEN <<"-">> ELSE <<>>)
               \o NatStr(tenths \div 10) \o <<".">> \o <<Digit(tenths % 10)>>

\* whether f"{param:d}" raises ValueError (format code 'd' on a float)
FormatDRaises(param) == param.t = "float"

\* f"{param:d}" of an int
FormatD(param) ==
  (IF param.v < 0 THEN <<"-">> ELSE <<>>) \o NatStr(Abs(param.v))

(***************************************************************************)
(* The inputs: commands of the accessor table and parameters.              *)
(***************************************************************************)
in_pv_00 == <<"i", "n", "_", "p", "v", "_", "0", "0">>
in_pv_01 == <<"i", "n", "_", "p", "v", "_", "0", "1">>
in_pv_02 == <<"i", "n", "_", "p", "v", "_", "0", "2">>
in_pv_03 == <<"i", "n", "_", "p", "v", "_", "0", "3">>
in_sp_00 == <<"i", "n", "_", "s", "p", "_", "0", "0">>
out_sp_00 == <<"o", "u", "t", "_", "s", "p", "_", "0", "0">>
out_par_06 == <<"o", "u", "t", "_", "p", "a", "r", "_", "0", "6">>
out_mode_05 == <<"o", "u", "t", "_", "m", "o", "d", "e", "_", "0", "5">>
status_cmd == <<"s", "t", "a", "t", "u", "s">>
version_cmd == <<"v", "e", "r", "s", "i", "o", "n">>

Commands ==
  { in_pv_00, in_pv_01, in_sp_00, out_sp_00, out_par_06, out_mode_05,
    status_cmd, version_cmd }

\* None, the ints 12, 0, 1, -7 and the floats 12.4, -3.05, 0.25, 1.5
Params ==
  { NoParam, IntParam(12), IntParam(0), IntParam(1), IntParam(-7),
    FloatParam(1240), FloatParam(-305), FloatParam(25), FloatParam(150) }

(***************************************************************************)
(* The controller on the other end of the line.  It answers a transfer     *)
(* sequence without parameter with a reading terminated by \r\n, and does  *)
(* not answer one with a parameter.  An answer may be late: the bytes that *)
(* arrive within the read timeout may stop short of the terminator, or be  *)
(* none at all.                                                            *)
(***************************************************************************)
\* the reading the controller holds for a command: the command's last
\* character; a setpoint ('sp') may also read negative
Readings(sent) ==
  LET v == <<sent[Len(sent) - 1]>>
  IN  IF Contains(sent, Encode(<<"s", "p">>)) THEN {v, Encode(<<"-">>) \o v} ELSE {v}

StatusReplies ==
  { Encode(<<"o", "k">>) \o CRLF,           \* no error
    Encode(<<"-", "1", " ", "e">>) \o CRLF, \* an error message
    Encode(<<"-", "1">>),                   \* an error message cut by the timeout
    Encode(<<"0", "-", "1">>) \o CRLF,      \* a message with '-' inside
    <<>> }                                  \* nothing within the timeout

\* what the controller may send back for the bytes `sent`
DeviceReplies(sent) ==
  IF sent = StatusProbe THEN StatusReplies
  ELSE IF Contains(sent, SP) THEN {<<>>}
  ELSE UNION { { v \o CRLF, SP \o v \o CRLF, v } : v \in Readings(sent) } \cup {<<>>}

(***************************************************************************)
(* State.                                                                  *)
(***************************************************************************)
VARIABLES
  pc,        \* where the program is
  caller,    \* who called query: "top" (the user) or "log" (log_csv)
  command,   \* query's argument command
  param,     \* query's argument param
  resp,      \* query's local resp
  status,    \* query's local status (raw bytes)
  calls,     \* the transport and sleep calls since the current query began
  rx,        \* the serial input buffer: bytes received and not yet read
  outcome,   \* how the last invocation from the top ended
  prevKind,  \* how the invocation before the current one ended
  file,      \* the lines of the destination file of log_csv
  runs,      \* the invocations of log_csv so far
  started,   \* the invocations of log_csv that have entered their try block
  row,       \* log_csv's row under construction
  qidx,      \* which of the four queries of the cycle is next
  sigLines,  \* the length of file when KeyboardInterrupt was raised, -1 before
  sigAt,     \* where the program was when KeyboardInterrupt was raised
  startLines, \* the length of file when this run of log_csv opened it
  okCycles,  \* the cycles of this run whose four queries all returned
  flushed,   \* how many lines of file have left the writer's buffer
  timestep,  \* log_csv's argument timestep, in milliseconds
  warned,    \* whether this run of log_csv has warned about its timestep
  elapsed    \* milliseconds since t0 of the current cycle (time.time() - t0)

vars ==
  << pc, caller, command, param, resp, status, calls, rx, outcome, prevKind,
     file, runs, started, row, qidx, sigLines, sigAt, startLines, okCycles, flushed,
     timestep, warned, elapsed >>

qlocals == << command, param, resp, status >>
logvars == << file, runs, started, row, qidx, sigLines, sigAt, startLines, okCycles,
             timestep, warned >>

\* Python values: None, or a str
NoneVal == [isNone |-> TRUE, s |-> <<>>]
StrVal(s) == [isNone |-> FALSE, s |-> s]

\* the grace period of query and of the cleanup, in milliseconds
PauseMs == 50

\* the read timeout of the port, in milliseconds
ReadTimeoutMs == 5000

\* how long read_until blocks on the buffer: not at all when the terminator
\* is there, for the whole timeout when it is not
ReadLatency(buf) == IF Find(buf, CRLF) = 0 THEN ReadTimeoutMs ELSE 0

\* the clock of the cycle after ms more milliseconds (query run by the user
\* has no cycle)
Tick(ms) == elapsed' = IF caller = "log" THEN elapsed + ms ELSE elapsed

\* one recorded call
Write(site, data) == [op |-> "write", site |-> site, data |-> data, ms |-> 0]
ReadUntil(site, data) == [op |-> "read_until", site |-> site, data |-> data, ms |-> 0]
Sleep(site, ms) == [op |-> "sleep", site |-> site, data |-> <<>>, ms |-> ms]
ResetOutput == [op |-> "reset_output_buffer", site |-> "cleanup", data |-> <<>>, ms |-> 0]
ResetInput == [op |-> "reset_input_buffer", site |-> "cleanup", data |-> <<>>, ms |-> 0]

\* serial.Serial.read_until(b"\r\n"): the bytes up to and including the first
\* terminator, or, when the timeout expires first, the bytes received
ReadData(buf) ==
  IF Find(buf, CRLF) = 0 THEN buf ELSE SubSeq(buf, 1, Find(buf, CRLF) + 1)

ReadRest(buf) ==
  IF Find(buf, CRLF) = 0 THEN <<>> ELSE SubSeq(buf, Find(buf, CRLF) + 2, Len(buf))

NoOutcome == [kind |-> "none", value |-> NoneVal]

Init ==
  /\ pc = "idle"
  /\ caller = "top"
  /\ command = <<>>
  /\ param = NoParam
  /\ resp = NoneVal
  /\ status = <<>>
  /\ calls = <<>>
  /\ rx = <<>>
  /\ outcome = NoOutcome
  /\ prevKind = "none"
  /\ file = <<>>
  /\ runs = 0
  /\ started = 0
  /\ row = <<>>
  /\ qidx = 0
  /\ sigLines = -1
  /\ sigAt = "none"
  /\ startLines = 0
  /\ okCycles = 0
  /\ flushed = 0
  /\ timestep = 0
  /\ warned = FALSE
  /\ elapsed = 0

(***************************************************************************)
(* query(command, param)                                                   *)
(***************************************************************************)
\* the user invokes query; what an earlier run of log_csv left in its frame
\* is gone
CallQuery(c, p) ==
  /\ pc = "idle"
  /\ pc' = "q_enter"
  /\ caller' = "top"
  /\ command' = c
  /\ param' = p
  /\ resp' = NoneVal
  /\ status' = <<>>
  /\ calls' = <<>>
  /\ prevKind' = outcome.kind
  /\ outcome' = NoOutcome
  /\ row' = <<>>
  /\ qidx' = 0
  /\ sigLines' = -1
  /\ sigAt' = "none"
  /\ startLines' = 0
  /\ okCycles' = 0
  /\ timestep' = 0
  /\ warned' = FALSE
  /\ elapsed' = 0
  /\ UNCHANGED << rx, file, runs, started, flushed >>

\* self.write(data): the bytes go out and the controller's answer, if any,
\* arrives in the input buffer
Transmit(site, data) ==
  /\ calls' = Append(calls, Write(site, data))
  /\ \E reply \in DeviceReplies(data) : rx' = rx \o reply

\* the transfer sequence of a command with a parameter
SpSequence(c, p) == Encode(c) \o SP \o Encode(FormatF1(p)) \o CR
IntSequence(c, p) == Encode(c) \o SP \o Encode(FormatD(p)) \o CR

\* Raise with a handler in log_csv that catches StatusError too
RaiseCaught(kind, text) ==
  IF kind = "StatusError" /\ caller = "log"
    THEN pc' = "l_except" /\ UNCHANGED << outcome, flushed >>
    ELSE /\ pc' = "idle"
         /\ outcome' = [kind |-> kind, value |-> StrVal(text)]
         /\ flushed' = IF caller = "log" THEN Len(file) ELSE flushed

\* an exception leaves query: to the user, or through log_csv, whose
\* handler catches KeyboardInterrupt only and whose with block closes the
\* file, which empties the writer's buffer
Raise(kind, text) ==
  /\ pc' = "idle"
  /\ outcome' = [kind |-> kind, value |-> StrVal(text)]
  /\ flushed' = IF caller = "log" THEN Len(file) ELSE flushed

\* QueryWriteIn going on without the read of the response
QueryWriteInNoRead ==
  /\ pc = "q_enter"
  /\ param = NoParam
  /\ Transmit("primary", Encode(command) \o CR)
  /\ pc' = "q_pause"
  /\ UNCHANGED << caller, qlocals, outcome, prevKind, logvars, flushed, elapsed >>

\* lines 506-508: param is None, the command is written
QueryWriteIn ==
  /\ pc = "q_enter"
  /\ param = NoParam
  /\ Transmit("primary", Encode(command) \o CR)
  /\ pc' = "q_read"
  /\ UNCHANGED << caller, qlocals, outcome, prevKind, logvars, flushed, elapsed >>

\* QueryReadResp failing when the terminator does not come in time
QueryReadRespRaising ==
  /\ pc = "q_read"
  /\ calls' = Append(calls, ReadUntil("primary", ReadData(rx)))
  /\ rx' = ReadRest(rx)
  /\ Tick(ReadLatency(rx))
  /\ IF Find(rx, CRLF) = 0
       THEN Raise("TimeoutError", <<>>) /\ UNCHANGED resp
       ELSE /\ resp' = StrVal(Strip(Decode(ReadData(rx))))
            /\ pc' = "q_pause"
            /\ UNCHANGED << outcome, flushed >>
  /\ UNCHANGED << caller, command, param, status, prevKind, logvars >>

\* line 509: the response is read, decoded and stripped
QueryReadResp ==
  /\ pc = "q_read"
  /\ calls' = Append(calls, ReadUntil("primary", ReadData(rx)))
  /\ rx' = ReadRest(rx)
  /\ resp' = StrVal(Strip(Decode(ReadData(rx))))
  /\ pc' = "q_pause"
  /\ Tick(ReadLatency(rx))
  /\ UNCHANGED << caller, command, param, status, outcome, prevKind, logvars, flushed >>

\* lines 511-515: a command with 'sp' and a parameter
QueryWriteSp ==
  /\ pc = "q_enter"
  /\ param # NoParam
  /\ Contains(command, <<"s", "p">>)
  /\ Transmit("primary", SpSequence(command, param))
  /\ pc' = "q_pause"
  /\ UNCHANGED << caller, qlocals, outcome, prevKind, logvars, flushed, elapsed >>

\* QueryWriteInt with the format of the 'sp' branch
QueryWriteIntAsSp ==
  /\ pc = "q_enter"
  /\ param # NoParam
  /\ ~Contains(command, <<"s", "p">>)
  /\ ~FormatDRaises(param)
  /\ Transmit("primary", SpSequence(command, param))
  /\ pc' = "q_pause"
  /\ UNCHANGED << caller, qlocals, outcome, prevKind, logvars, flushed, elapsed >>

\* lines 516-520: any other command with a parameter that "d" formats
QueryWriteInt ==
  /\ pc = "q_enter"
  /\ param # NoParam
  /\ ~Contains(command, <<"s", "p">>)
  /\ ~FormatDRaises(param)
  /\ Transmit("primary", IntSequence(command, param))
  /\ pc' = "q_pause"
  /\ UNCHANGED << caller, qlocals, outcome, prevKind, logvars, flushed, elapsed >>

\* lines 516-518: f"{param:d}" raises ValueError while the argument of
\* logging.debug is built, before anything is written
QueryFormatError ==
  /\ pc = "q_enter"
  /\ param # NoParam
  /\ ~Contains(command, <<"s", "p">>)
  /\ FormatDRaises(param)
  /\ Raise("ValueError", <<>>)
  /\ UNCHANGED << caller, qlocals, calls, rx, prevKind, logvars, elapsed >>

\* line 523: time.sleep(0.05)
QueryPause ==
  /\ pc = "q_pause"
  /\ calls' = Append(calls, Sleep("pause", PauseMs))
  /\ pc' = "q_status"
  /\ Tick(PauseMs)
  /\ UNCHANGED << caller, qlocals, rx, outcome, prevKind, logvars, flushed >>

\* line 525: self.write(b"status\r")
QueryWriteStatus ==
  /\ pc = "q_status"
  /\ Transmit("status", StatusProbe)
  /\ pc' = "q_status_read"
  /\ UNCHANGED << caller, qlocals, outcome, prevKind, logvars, flushed, elapsed >>

\* QueryReadStatus failing when the terminator does not come in time
QueryReadStatusRaising ==
  /\ pc = "q_status_read"
  /\ calls' = Append(calls, ReadUntil("status", ReadData(rx)))
  /\ rx' = ReadRest(rx)
  /\ Tick(ReadLatency(rx))
  /\ IF Find(rx, CRLF) = 0
       THEN Raise("TimeoutError", <<>>) /\ UNCHANGED status
       ELSE /\ status' = ReadData(rx)
            /\ pc' = "q_check"
            /\ UNCHANGED << outcome, flushed >>
  /\ UNCHANGED << caller, command, param, resp, prevKind, logvars >>

\* line 526: status = self.read_until(b"\r\n")
QueryReadStatus ==
  /\ pc = "q_status_read"
  /\ calls' = Append(calls, ReadUntil("status", ReadData(rx)))
  /\ rx' = ReadRest(rx)
  /\ status' = ReadData(rx)
  /\ pc' = "q_check"
  /\ Tick(ReadLatency(rx))
  /\ UNCHANGED << caller, command, param, resp, outcome, prevKind, logvars, flushed >>

\* StatusIsError looking for '-' anywhere in the status
StatusIsErrorAnywhere(st) == Contains(st, Encode(<<"-">>))

\* line 527: status.startswith(b"-")
StatusIsError(st) == StartsWith(st, Encode(<<"-">>))

\* QueryRaise clearing the input buffer before it raises
QueryRaiseResetting ==
  /\ pc = "q_check"
  /\ StatusIsError(status)
  /\ Raise("StatusError", Decode(status))
  /\ calls' = Append(calls, ResetInput)
  /\ rx' = <<>>
  /\ UNCHANGED << caller, qlocals, prevKind, logvars, elapsed >>

\* line 528: raise StatusError(status.decode())
QueryRaise ==
  /\ pc = "q_check"
  /\ StatusIsError(status)
  /\ Raise("StatusError", Decode(status))
  /\ UNCHANGED << caller, qlocals, calls, rx, prevKind, logvars, elapsed >>

\* line 529: return resp, to the user or into the row of log_csv
QueryReturn ==
  /\ pc = "q_check"
  /\ ~StatusIsError(status)
  /\ IF caller = "top"
       THEN /\ pc' = "idle"
            /\ outcome' = [kind |-> "return", value |-> resp]
            /\ UNCHANGED << row, qidx, okCycles >>
       ELSE /\ pc' = IF qidx = 4 THEN "l_write" ELSE "l_query"
            /\ row' = Append(row, resp.s)
            /\ qidx' = qidx + 1
            /\ okCycles' = IF qidx = 4 THEN okCycles + 1 ELSE okCycles
            /\ UNCHANGED outcome
  /\ UNCHANGED << caller, qlocals, calls, rx, prevKind, file, runs, started, sigLines, sigAt,
                  startLines, flushed, timestep, warned, elapsed >>

QueryStep ==
  \/ QueryWriteIn
  \/ QueryReadResp
  \/ QueryWriteSp
  \/ QueryWriteInt
  \/ QueryFormatError
  \/ QueryPause
  \/ QueryWriteStatus
  \/ QueryReadStatus
  \/ QueryRaise
  \/ QueryReturn

QueryNext ==
  \/ \E c \in Commands, p \in Params : CallQuery(c, p)
  \/ QueryStep

\* the protocol engine alone: the user calls query again and again
QuerySpec == Init /\ [][QueryNext]_vars

(***************************************************************************)
(* log_csv(timestep, filepath)                                             *)
(***************************************************************************)
\* line 559: the header
HeaderLine ==
  [kind |-> "header",
   fields |-> <<"Timestamp", "Power [%]", "T-J [degC]", "T-R [degC]", "T-S [degC]">>]

RowLine(r) == [kind |-> "row", fields |-> r]

\* datetime.now().isoformat(), the wall clock not being modelled
Timestamp == <<"n", "o", "w">>

\* LogCommands with the first two properties of the row read in the other order
LogCommandsSwapped == << in_pv_00, in_pv_01, in_pv_02, in_pv_03 >>

\* lines 567-570 with the properties of lines 181-199: heating_power,
\* temp_tj, temp_tr, temp_ts
LogCommands == << in_pv_01, in_pv_00, in_pv_02, in_pv_03 >>

DataRows == Cardinality({ i \in DOMAIN file : file[i].kind = "row" })

\* the timesteps tried: 0.5 s and 10.0 s
Timesteps == { 500, 10000 }

Max(a, b) == IF a >= b THEN a ELSE b

\* lines 549-558: the warning, and the file opened for appending
CallLogCsv(ts) ==
  /\ pc = "idle"
  /\ runs < MaxRuns
  /\ pc' = "l_header"
  /\ caller' = "log"
  /\ timestep' = ts
  /\ warned' = (ts < 1000)
  /\ runs' = runs + 1
  /\ outcome' = NoOutcome
  /\ calls' = <<>>
  /\ row' = <<>>
  /\ qidx' = 0
  /\ sigLines' = -1
  /\ sigAt' = "none"
  /\ startLines' = Len(file)
  /\ okCycles' = 0
  /\ elapsed' = 0
  /\ command' = <<>>
  /\ param' = NoParam
  /\ resp' = NoneVal
  /\ status' = <<>>
  /\ UNCHANGED << rx, prevKind, file, started, flushed >>

\* LogWriteHeader writing the header into an empty file only
LogWriteHeaderOnce ==
  /\ pc = "l_header"
  /\ file' = IF file = <<>> THEN Append(file, HeaderLine) ELSE file
  /\ started' = started + 1
  /\ pc' = "l_loop"
  /\ UNCHANGED << caller, qlocals, calls, rx, outcome, prevKind, runs, row, qidx,
                  sigLines, sigAt, startLines, okCycles, flushed, timestep, warned,
                  elapsed >>

\* lines 559-562: the header row, and the try block is entered
LogWriteHeader ==
  /\ pc = "l_header"
  /\ file' = Append(file, HeaderLine)
  /\ started' = started + 1
  /\ pc' = "l_loop"
  /\ UNCHANGED << caller, qlocals, calls, rx, outcome, prevKind, runs, row, qidx,
                  sigLines, sigAt, startLines, okCycles, flushed, timestep, warned,
                  elapsed >>

\* lines 563-566: a cycle begins with t0 and the timestamp of the row
LogCycleStart ==
  /\ pc = "l_loop"
  /\ DataRows < MaxRows
  /\ elapsed' = 0
  /\ row' = << Timestamp >>
  /\ qidx' = 1
  /\ pc' = "l_query"
  /\ UNCHANGED << caller, qlocals, calls, rx, outcome, prevKind, file, runs, started,
                  sigLines, sigAt, startLines, okCycles, flushed, timestep, warned >>

\* lines 567-570: the next property of the row is read, which calls query
LogQuery ==
  /\ pc = "l_query"
  /\ command' = LogCommands[qidx]
  /\ param' = NoParam
  /\ resp' = NoneVal
  /\ status' = <<>>
  /\ calls' = <<>>
  /\ pc' = "q_enter"
  /\ UNCHANGED << caller, rx, outcome, prevKind, logvars, flushed, elapsed >>

\* lines 572-573: the row goes to the writer, which buffers it
LogWriteRow ==
  /\ pc = "l_write"
  /\ file' = Append(file, RowLine(row))
  /\ pc' = "l_sleep"
  /\ UNCHANGED << caller, qlocals, calls, rx, outcome, prevKind, runs, started, row, qidx,
                  sigLines, sigAt, startLines, okCycles, flushed, timestep, warned,
                  elapsed >>

\* LogSleep without the max: the remainder is slept as it is
LogSleepRemainder ==
  /\ pc = "l_sleep"
  /\ calls' = Append(calls, Sleep("cycle", timestep - elapsed))
  /\ pc' = "l_loop"
  /\ UNCHANGED << caller, qlocals, rx, outcome, prevKind, logvars, flushed, elapsed >>

\* lines 574-575: time.sleep(max(timestep - (t1 - t0), 0))
LogSleep ==
  /\ pc = "l_sleep"
  /\ calls' = Append(calls, Sleep("cycle", Max(timestep - elapsed, 0)))
  /\ pc' = "l_loop"
  /\ UNCHANGED << caller, qlocals, rx, outcome, prevKind, logvars, flushed, elapsed >>

\* the positions inside the try block of lines 562-575
TryPcs ==
  { "l_loop", "l_query", "l_write", "l_sleep",
    "q_enter", "q_read", "q_pause", "q_status", "q_status_read", "q_check" }

\* InterruptInTry with the row under construction written out as it is
InterruptInTryWritingRow ==
  /\ caller = "log"
  /\ pc \in TryPcs
  /\ pc' = "l_except"
  /\ file' = IF row # <<>> /\ pc # "l_sleep" THEN Append(file, RowLine(row)) ELSE file
  /\ sigLines' = Len(file')
  /\ sigAt' = pc
  /\ command' = <<>>
  /\ param' = NoParam
  /\ resp' = NoneVal
  /\ status' = <<>>
  /\ row' = <<>>
  /\ UNCHANGED << caller, calls, rx, outcome, prevKind, runs, started, qidx,
                  startLines, okCycles, flushed, timestep, warned, elapsed >>

\* KeyboardInterrupt is raised inside the try block: the frame of query, if
\* one is running, is left with its locals, the row under construction is
\* dropped, and control goes to the handler of line 576
InterruptInTry ==
  /\ caller = "log"
  /\ pc \in TryPcs
  /\ pc' = "l_except"
  /\ sigLines' = Len(file)
  /\ sigAt' = pc
  /\ command' = <<>>
  /\ param' = NoParam
  /\ resp' = NoneVal
  /\ status' = <<>>
  /\ row' = <<>>
  /\ UNCHANGED << caller, calls, rx, outcome, prevKind, file, runs, started, qidx,
                  startLines, okCycles, flushed, timestep, warned, elapsed >>

\* KeyboardInterrupt is raised before the try block is entered: no handler
InterruptBeforeTry ==
  /\ caller = "log"
  /\ pc = "l_header"
  /\ sigLines' = Len(file)
  /\ sigAt' = pc
  /\ Raise("KeyboardInterrupt", <<>>)
  /\ UNCHANGED << caller, qlocals, calls, rx, prevKind, file, runs, started, row, qidx,
                  startLines, okCycles, timestep, warned, elapsed >>

\* LogCleanup leaving the input buffer as it is
LogCleanupKeepsInput ==
  /\ pc = "l_except"
  /\ calls' = calls \o << Sleep("cleanup", PauseMs), ResetOutput >>
  /\ pc' = "l_reraise"
  /\ UNCHANGED << caller, qlocals, rx, outcome, prevKind, logvars, flushed, elapsed >>

\* lines 578-580: the pause, then the two buffers are cleared
LogCleanup ==
  /\ pc = "l_except"
  /\ calls' = calls \o << Sleep("cleanup", PauseMs), ResetOutput, ResetInput >>
  /\ rx' = <<>>
  /\ pc' = "l_reraise"
  /\ UNCHANGED << caller, qlocals, outcome, prevKind, logvars, flushed, elapsed >>

\* LogReraise ending log_csv by a plain return
LogSwallow ==
  /\ pc = "l_reraise"
  /\ pc' = "idle"
  /\ outcome' = [kind |-> "return", value |-> NoneVal]
  /\ flushed' = Len(file)
  /\ UNCHANGED << caller, qlocals, calls, rx, prevKind, logvars, elapsed >>

\* line 581: raise interrupt
LogReraise ==
  /\ pc = "l_reraise"
  /\ Raise("KeyboardInterrupt", <<>>)
  /\ UNCHANGED << caller, qlocals, calls, rx, prevKind, logvars, elapsed >>

LogStep ==
  \/ LogWriteHeader
  \/ LogCycleStart
  \/ LogQuery
  \/ LogWriteRow
  \/ LogSleep
  \/ InterruptInTry
  \/ InterruptBeforeTry
  \/ LogCleanup
  \/ LogReraise

LogNext ==
  \/ \E ts \in Timesteps : CallLogCsv(ts)
  \/ LogStep
  \/ QueryWriteIn
  \/ QueryReadResp
  \/ QueryPause
  \/ QueryWriteStatus
  \/ QueryReadStatus
  \/ QueryRaise
  \/ QueryReturn

\* the sampling loop: log_csv is run on the same destination file, each
\* run ending by a StatusError or a KeyboardInterrupt
LogSpec == Init /\ [][LogNext]_vars

Next ==
  \/ \E c \in Commands, p \in Params : CallQuery(c, p)
  \/ \E ts \in Timesteps : CallLogCsv(ts)
  \/ QueryStep
  \/ LogStep

\* a session: the user calls query and log_csv in any order
Spec == Init /\ [][Next]_vars

(***************************************************************************)
(* Properties of query, checked under QuerySpec.                           *)
(***************************************************************************)
\* an invocation of query by the user has ended (returned or raised)
QueryFinished == pc = "idle" /\ caller = "top" /\ outcome.kind # "none"

\* the positions in calls of the calls of an operation at a site
CallsOf(op, site) == { i \in DOMAIN calls : calls[i].op = op /\ calls[i].site = site }

Reads == { i \in DOMAIN calls : calls[i].op = "read_until" }

\* the text transmitted after "<command> " and before the final \r
ParamText(data) == Decode(SubSeq(data, Len(command) + 2, Len(data) - 1))

Digits == { "0", "1", "2", "3", "4", "5", "6", "7", "8", "9" }

\* optional sign, then digits only
IsIntegerText(s) ==
  LET body == IF s # <<>> /\ s[1] = "-" THEN Tail(s) ELSE s
  IN  body # <<>> /\ \A i \in DOMAIN body : body[i] \in Digits

\* an integer text, a point, one digit
IsOneDecimalText(s) ==
  /\ Len(s) >= 3
  /\ s[Len(s)] \in Digits
  /\ s[Len(s) - 1] = "."
  /\ IsIntegerText(SubSeq(s, 1, Len(s) - 2))

\* C1: every invocation of query, for any command and any parameter, has
\* transmitted the status probe exactly once when it ends, after its primary
\* command transmission.
C1_StatusProbeOnce ==
  QueryFinished =>
    /\ Cardinality(CallsOf("write", "status")) = 1
    /\ \A j \in CallsOf("write", "status") :
         /\ calls[j].data = StatusProbe
         /\ \E i \in CallsOf("write", "primary") : i < j

\* C2: for a command without parameter, no status probe is written before
\* the primary response has been read: the calls go write(command), read,
\* write(status), read.
C2_ReadBeforeStatus ==
  param = NoParam =>
    /\ \A j \in CallsOf("write", "status") :
         \E i \in CallsOf("read_until", "primary") :
           /\ i < j
           /\ \E k \in CallsOf("write", "primary") : k < i
    /\ (QueryFinished =>
          [i \in DOMAIN calls |-> calls[i].op] \in
            { <<"write", "read_until", "sleep", "write", "read_until">> })

C2_Witness ==
  /\ QueryFinished
  /\ param = NoParam
  /\ outcome.kind = "return"
  /\ CallsOf("read_until", "primary") = {2}
  /\ CallsOf("write", "status") = {4}

\* the reply the transport delivered to the status probe starts with '-'
StatusReplyStartsWithMinus ==
  \E i \in CallsOf("read_until", "status") :
    StartsWith(Decode(calls[i].data), <<"-">>)

\* C3: query fails with StatusError if and only if the reply to its status
\* probe starts with '-', whatever the primary response was.
C3_StatusErrorIff ==
  QueryFinished => (outcome.kind = "StatusError" <=> StatusReplyStartsWithMinus)

\* a primary response starting with '-' was followed by a status that is
\* no error, and query returned
C3_Witness ==
  /\ QueryFinished
  /\ \E i \in CallsOf("read_until", "primary") :
       StartsWith(Decode(calls[i].data), <<"-">>)
  /\ outcome.kind = "return"
  /\ \E i \in CallsOf("read_until", "status") : Len(calls[i].data) > 0

\* the calls of a complete run of the protocol for the current arguments
CompleteProtocol ==
  IF param = NoParam
    THEN /\ Len(calls) = 5
         /\ calls[1] = Write("primary", Encode(command) \o CR)
         /\ calls[2].op = "read_until"
         /\ calls[3] = Sleep("pause", PauseMs)
         /\ calls[4] = Write("status", StatusProbe)
         /\ calls[5].op = "read_until"
    ELSE /\ Len(calls) = 4
         /\ calls[1].op = "write" /\ calls[1].site = "primary"
         /\ calls[2] = Sleep("pause", PauseMs)
         /\ calls[3] = Write("status", StatusProbe)
         /\ calls[4].op = "read_until"

\* the arguments for which query raises ValueError before it writes
\* (a float for a command without 'sp')
ParamDoesNotFormat == param.t = "float" /\ ~Contains(command, <<"s", "p">>)

\* C4: a query that fails with StatusError performs no reset (or close) of
\* the transport and leaves the input buffer as the status read left it, and
\* the query that follows does what it does after a success: it runs the
\* complete protocol (or, for arguments that do not format, raises
\* ValueError before it writes).
C4_FailureLeavesTransport ==
  /\ (QueryFinished /\ outcome.kind = "StatusError") =>
       /\ \A i \in DOMAIN calls : calls[i].op \in {"write", "read_until", "sleep"}
       /\ calls[Len(calls)].op = "read_until"
       /\ rx = <<>>
  /\ (QueryFinished /\ prevKind = "StatusError") =>
       IF ParamDoesNotFormat
         THEN outcome.kind = "ValueError" /\ calls = <<>>
         ELSE outcome.kind \in {"return", "StatusError"} /\ CompleteProtocol

C4_Witness ==
  /\ QueryFinished
  /\ prevKind = "StatusError"
  /\ outcome.kind = "return"
  /\ CompleteProtocol

\* C5: the primary transmission is "<command>\r" followed by one read when
\* there is no parameter, and "<command> <formatted-param>\r" with no read
\* before the status probe when there is one; so an invocation has read
\* twice without a parameter and once with one.
C5_PrimaryTransmission ==
  QueryFinished =>
    IF param = NoParam
      THEN /\ CallsOf("write", "primary") = {1}
           /\ calls[1].data = Encode(command) \o CR
           /\ calls[2].op = "read_until"
           /\ Cardinality(Reads) = 2
      ELSE /\ CallsOf("write", "primary") = {1}
           /\ StartsWith(calls[1].data, Encode(command) \o SP)
           /\ ~Contains(ParamText(calls[1].data), <<" ">>)
           /\ SubSeq(calls[1].data, Len(calls[1].data), Len(calls[1].data)) = CR
           /\ CallsOf("read_until", "primary") = {}
           /\ Cardinality(Reads) = 1

\* what the claim C6 lists: 12, 12.4, -3.05 and 0 as transmitted
OneDecimalExamples(p) ==
  /\ p = IntParam(12) => ParamText(calls[1].data) = <<"1", "2", ".", "0">>
  /\ p = FloatParam(1240) => ParamText(calls[1].data) = <<"1", "2", ".", "4">>
  /\ p = FloatParam(-305) => ParamText(calls[1].data) = <<"-", "3", ".", "0">>
  /\ p = IntParam(0) => ParamText(calls[1].data) = <<"0", ".", "0">>

\* C6: for a command with 'sp' in its name and a parameter p, the parameter
\* is transmitted with exactly one digit after the decimal point; 12, 12.4,
\* -3.05 and 0 go out as "12.0", "12.4", "-3.0" and "0.0".
C6_OneDecimal ==
  (Contains(command, <<"s", "p">>) /\ param # NoParam /\ calls # <<>>) =>
    /\ calls[1].op = "write"
    /\ StartsWith(calls[1].data, Encode(command) \o SP)
    /\ IsOneDecimalText(ParamText(calls[1].data))
    /\ OneDecimalExamples(param)

C6_Witness ==
  /\ QueryFinished
  /\ command = out_sp_00
  /\ param = FloatParam(-305)
  /\ calls[1].data = Encode(out_sp_00 \o <<" ", "-", "3", ".", "0", "\r">>)

\* C7: for a command without 'sp' in its name and an integer parameter p,
\* the parameter is transmitted in base 10 without a decimal point (12, 0, 1
\* and -7 as "12", "0", "1" and "-7"), and no transmission of a command
\* without 'sp' holds a decimal point.
C7_IntegerText ==
  (~Contains(command, <<"s", "p">>) /\ calls # <<>>) =>
    /\ ~Contains(calls[1].data, Encode(<<".">>))
    /\ (param.t = "int" =>
          /\ calls[1].op = "write"
          /\ StartsWith(calls[1].data, Encode(command) \o SP)
          /\ IsIntegerText(ParamText(calls[1].data))
          /\ param = IntParam(12) => ParamText(calls[1].data) = <<"1", "2">>
          /\ param = IntParam(0) => ParamText(calls[1].data) = <<"0">>
          /\ param = IntParam(1) => ParamText(calls[1].data) = <<"1">>
          /\ param = IntParam(-7) => ParamText(calls[1].data) = <<"-", "7">>)

C7_Witness ==
  /\ QueryFinished
  /\ command = out_par_06
  /\ param = IntParam(-7)
  /\ calls[1].data = Encode(out_par_06 \o <<" ", "-", "7", "\r">>)

\* the bytes of a response without the \r\n that frames it
Unframed(data) ==
  IF Len(data) >= 2 /\ SubSeq(data, Len(data) - 1, Len(data)) = CRLF
    THEN SubSeq(data, 1, Len(data) - 2)
    ELSE data

\* C8: on success query without a parameter returns the primary response
\* with nothing but the \r\n framing removed, and query with a parameter
\* returns nothing.
C8_ResponseUnchanged ==
  (QueryFinished /\ outcome.kind = "return") =>
    IF param = NoParam
      THEN /\ ~outcome.value.isNone
           /\ \E i \in CallsOf("read_until", "primary") :
                outcome.value.s = Decode(Unframed(calls[i].data))
      ELSE outcome.value.isNone

(***************************************************************************)
(* Properties of the sampling loop, checked under LogSpec.                 *)
(***************************************************************************)
\* a run of log_csv has ended
LogFinished == pc = "idle" /\ caller = "log" /\ outcome.kind # "none"

\* the calls of the handler of lines 576-580
Cleanup == << Sleep("cleanup", PauseMs), ResetOutput, ResetInput >>

CleanupCalls == { i \in DOMAIN calls : calls[i].site = "cleanup" }

\* the handler has run once, and nothing followed it
CleanupDoneOnce ==
  /\ Len(calls) >= 3
  /\ SubSeq(calls, Len(calls) - 2, Len(calls)) = Cleanup
  /\ Cardinality(CleanupCalls) = 3
  /\ rx = <<>>

\* C9: when KeyboardInterrupt arrives while the sampling loop runs, no row is
\* appended after it, the cleanup (a 50 ms pause, then the output buffer
\* cleared, then the input buffer cleared) runs exactly once, and only then
\* does the KeyboardInterrupt reach the caller of log_csv, which it always
\* does: the loop is never resumed and the run never ends another way.
C9_Cancellation ==
  (caller = "log" /\ sigAt \in TryPcs) =>
    /\ Len(file) = sigLines
    /\ pc \in {"l_except", "l_reraise", "idle"}
    /\ pc = "l_except" => CleanupCalls = {}
    /\ pc = "l_reraise" => CleanupDoneOnce
    /\ pc = "idle" => (outcome.kind = "KeyboardInterrupt" /\ CleanupDoneOnce)

\* a run interrupted in its sleep, after a row was written
C9_Witness ==
  /\ LogFinished
  /\ outcome.kind = "KeyboardInterrupt"
  /\ sigAt = "l_sleep"
  /\ DataRows = 1
  /\ CleanupDoneOnce

\* the reply to the last status probe in calls is an error message
LastCallIsErrorStatus ==
  /\ calls # <<>>
  /\ calls[Len(calls)].op = "read_until"
  /\ calls[Len(calls)].site = "status"
  /\ StartsWith(Decode(calls[Len(calls)].data), <<"-">>)

\* C10: a StatusError raised by one of the four queries of a cycle is not
\* caught in log_csv: the run ends with it, no row is appended for the
\* cycle, no other query follows the failing one, the failing one is issued
\* once, and the cleanup of the KeyboardInterrupt handler is not run.
C10_StatusErrorEndsLoop ==
  caller = "log" =>
    /\ (LastCallIsErrorStatus /\ sigAt = "none") =>
          \/ pc = "q_check"
          \/ /\ pc = "idle"
             /\ outcome.kind = "StatusError"
             /\ outcome.value.s = Decode(calls[Len(calls)].data)
             /\ command = LogCommands[qidx]
             /\ CompleteProtocol
             /\ Len(file) = startLines + 1 + okCycles
             /\ \A i \in (startLines + 2)..Len(file) : Len(file[i].fields) = 5
    /\ pc \in {"l_except", "l_reraise"} => sigAt \in TryPcs
    /\ (pc = "idle" /\ outcome.kind = "StatusError") =>
          (LastCallIsErrorStatus /\ CleanupCalls = {} /\ sigAt = "none")

\* the third query of a cycle has failed
C10_Witness ==
  /\ LogFinished
  /\ outcome.kind = "StatusError"
  /\ qidx = 3
  /\ command = in_pv_02
  /\ Len(row) = 3
  /\ Len(file) = startLines + 1

\* the four queries of a cycle in the order of the columns of the header:
\* heating power, T-J, T-R, T-S
CycleQueries == << in_pv_01, in_pv_00, in_pv_02, in_pv_03 >>

\* what a field of a row may hold for a command: the reading the controller
\* holds for it, or nothing when the response did not arrive in time
FieldsFor(c) == { << c[Len(c)] >>, <<>> }

\* a row, complete or under construction: the timestamp, then the responses
\* to the queries of the cycle in their order
RowInOrder(r) ==
  /\ r[1] = Timestamp
  /\ Len(r) <= 5
  /\ \A i \in 2..Len(r) : r[i] \in FieldsFor(CycleQueries[i - 1])

\* C11: a cycle issues the queries in_pv_01, in_pv_00, in_pv_02, in_pv_03 in
\* this order, the k-th when the row holds the k - 1 responses before it;
\* each has written its own status probe and read the reply before the next
\* begins; and a row of the file holds the timestamp and then the four
\* responses in this order.
C11_CycleOrder ==
  /\ \A i \in DOMAIN file :
       file[i].kind = "row" =>
         (Len(file[i].fields) = 5 /\ RowInOrder(file[i].fields))
  /\ (caller = "log" /\ row # <<>>) =>
       /\ RowInOrder(row)
       /\ pc \in {"q_read", "q_pause", "q_status", "q_status_read", "q_check"} =>
            /\ Len(row) <= 4
            /\ calls[1] = Write("primary", Encode(CycleQueries[Len(row)]) \o CR)
            /\ CallsOf("write", "primary") = {1}
       /\ (pc \in {"l_query", "l_write"} /\ Len(row) > 1) =>
            /\ Len(calls) = 5
            /\ calls[1] = Write("primary", Encode(CycleQueries[Len(row) - 1]) \o CR)
            /\ calls[2].op = "read_until"
            /\ calls[4] = Write("status", StatusProbe)
            /\ calls[5].op = "read_until" /\ calls[5].site = "status"
       /\ pc = "l_query" => Len(row) <= 4
       /\ pc = "l_write" => Len(row) = 5

\* a row with the four readings is in the file
C11_Witness ==
  \E i \in DOMAIN file :
    /\ file[i].kind = "row"
    /\ file[i].fields = << Timestamp, <<"1">>, <<"0">>, <<"2">>, <<"3">> >>

\* the positions of query after its primary transmission and before the
\* reply to its status probe has been read
InFlightPcs == { "q_read", "q_pause", "q_status", "q_status_read" }

\* the calls of the current query, without those of the handler
QueryCalls == SelectSeq(calls, LAMBDA c : c.site # "cleanup")

\* C12 as stated: a KeyboardInterrupt that arrives while a query is in
\* flight reaches the handler only when the status probe of that query has
\* been written and its reply read, so that no primary transmission is left
\* without its status probe.
C12_ProbeBeforeCancel ==
  (caller = "log" /\ sigAt \in InFlightPcs) =>
    /\ CallsOf("write", "status") # {}
    /\ CallsOf("read_until", "status") # {}

\* C12, amended: a KeyboardInterrupt that arrives while a query is in flight
\* takes effect at once.  The query makes no further call: interrupted
\* before its status probe it never writes it, interrupted after the probe
\* it never reads the reply.  The handler then clears the buffers, which
\* drops what was not read, and the KeyboardInterrupt ends the run.
C12_CancelImmediate ==
  (caller = "log" /\ sigAt \in InFlightPcs) =>
    /\ pc \in {"l_except", "l_reraise", "idle"}
    /\ QueryCalls[1].op = "write" /\ QueryCalls[1].site = "primary"
    /\ sigAt = "q_read" => Len(QueryCalls) = 1
    /\ sigAt = "q_pause" =>
         (Len(QueryCalls) = 2 /\ QueryCalls[2].op = "read_until")
    /\ sigAt = "q_status" =>
         (Len(QueryCalls) = 3 /\ QueryCalls[3] = Sleep("pause", PauseMs))
    /\ sigAt = "q_status_read" =>
         (Len(QueryCalls) = 4 /\ QueryCalls[4] = Write("status", StatusProbe))
    /\ CallsOf("read_until", "status") = {}
    /\ pc \in {"l_reraise", "idle"} => rx = <<>>
    /\ pc = "idle" => outcome.kind = "KeyboardInterrupt"

\* a run has ended by an interrupt that came between the primary
\* transmission and the read of the response: no status probe was written
C12_Witness ==
  /\ LogFinished
  /\ outcome.kind = "KeyboardInterrupt"
  /\ sigAt = "q_read"
  /\ calls = << Write("primary", Encode(in_pv_01) \o CR) >> \o Cleanup

\* C13: when the sleep between two cycles begins, every line log_csv has
\* appended so far, the row of the cycle included, has left the writer's
\* buffer for the file.
C13_FlushedBeforeSleep ==
  (caller = "log" /\ pc = "l_sleep") => flushed = Len(file)

\* the sleep between cycles that has just been made, if the program is
\* where it leaves it (or was there when it was interrupted): the clock of
\* the cycle still stands where the sleep found it
CycleSleeps ==
  IF pc = "l_loop" \/ sigAt = "l_loop" THEN CallsOf("sleep", "cycle") ELSE {}

\* the part of the elapsed time of the cycle spent waiting in reads: with a
\* transport without latency it is zero
ReadWait == elapsed - 4 * PauseMs

\* C14 as stated: the sleep of an iteration is max(timestep - elapsed, 0),
\* never negative, and with a timestep of 10.0 s and a transport without
\* latency it lies within [9.9, 10.0] s.
C14_SleepWithinTenth ==
  caller = "log" =>
    \A i \in CycleSleeps :
      /\ calls[i].ms >= 0
      /\ calls[i].ms = Max(timestep - elapsed, 0)
      /\ (timestep = 10000 /\ ReadWait = 0) =>
           (9900 <= calls[i].ms /\ calls[i].ms <= 10000)

\* C14, amended: the sleep of an iteration is max(timestep - elapsed, 0),
\* never negative; the elapsed time holds the four 50 ms pauses of the
\* queries of the cycle, so the sleep is at most timestep - 0.2 s, and with
\* a timestep of 10.0 s and a transport without latency it is 9.8 s.
C14_SleepRemainder ==
  caller = "log" =>
    \A i \in CycleSleeps :
      /\ calls[i].ms >= 0
      /\ calls[i].ms + elapsed >= timestep
      /\ calls[i].ms > 0 => calls[i].ms + elapsed = timestep
      /\ elapsed >= 4 * PauseMs
      /\ calls[i].ms <= Max(timestep - 4 * PauseMs, 0)
      /\ (timestep = 10000 /\ ReadWait = 0) => calls[i].ms = 9800

\* a cycle without latency has slept 9.8 s of its 10.0 s
C14_Witness ==
  /\ caller = "log"
  /\ timestep = 10000
  /\ ReadWait = 0
  /\ pc = "l_loop"
  /\ calls # <<>>
  /\ calls[Len(calls)] = Sleep("cycle", 9800)

\* the header rows of the file
HeaderLines == { i \in DOMAIN file : file[i] = HeaderLine }

\* what the lines of the file say about the header
HeaderPerRun ==
  /\ Cardinality(HeaderLines) = started
  /\ (caller = "log" /\ pc = "l_header") => Len(file) = startLines
  /\ (caller = "log" /\ pc # "l_header" /\ sigAt # "l_header") =>
       /\ Len(file) > startLines
       /\ file[startLines + 1] = HeaderLine
       /\ \A i \in (startLines + 2)..Len(file) : file[i].kind = "row"

\* a step keeps the lines the file holds and adds at most one at the end
AppendOnly ==
  /\ Len(file') \in { Len(file), Len(file) + 1 }
  /\ SubSeq(file', 1, Len(file)) = file

\* C15: every invocation of log_csv that reaches line 560 writes the header
\* once, before any of its data rows and whatever the file holds already,
\* so the file holds as many header rows as there were such invocations;
\* and no step of the program overwrites or removes a line of the file.
C15_HeaderEveryRun == []HeaderPerRun /\ [][AppendOnly]_vars

\* the second run has written its header after the row of the first
C15_Witness ==
  /\ runs = 2
  /\ started = 2
  /\ Len(file) = 3
  /\ file[1] = HeaderLine
  /\ file[2].kind = "row"
  /\ file[3] = HeaderLine

(***************************************************************************)
(* Properties of query about read timeouts, checked under QuerySpec.       *)
(***************************************************************************)
\* read_until gave up on its timeout: what it returned has no terminator
TimedOut(data) == Find(data, CRLF) = 0

\* C16: a read that times out is no error of query.  When the read of the
\* primary response times out, query still writes the status probe after
\* it, and it returns, with the bytes received (maybe none) decoded as its
\* value, unless the status reply starts with '-'; and when the read of the
\* status reply times out with nothing received, query returns.
C16_TimeoutIsNoError ==
  QueryFinished =>
    /\ \A i \in CallsOf("read_until", "primary") :
         TimedOut(calls[i].data) =>
           /\ \E j \in CallsOf("write", "status") : j > i
           /\ outcome.kind = "return" <=> ~StatusReplyStartsWithMinus
           /\ outcome.kind = "return" =>
                (~outcome.value.isNone /\ outcome.value.s = Decode(calls[i].data))
    /\ \A j \in CallsOf("read_until", "status") :
         calls[j].data = <<>> => outcome.kind = "return"

\* a setpoint reading cut by the timeout was returned as it came
C16_Witness ==
  /\ QueryFinished
  /\ command = in_sp_00
  /\ calls[2] = ReadUntil("primary", Encode(<<"-", "0">>))
  /\ outcome = [kind |-> "return", value |-> StrVal(<<"-", "0">>)]

\* C17 as stated: a read that times out ends the invocation with an error
\* that reaches the caller, as a StatusError does, and is followed by no
\* transmission.
C17_TimeoutTerminates ==
  caller = "top" =>
    \A i \in Reads :
      TimedOut(calls[i].data) =>
        /\ \A j \in DOMAIN calls : j > i => calls[j].op # "write"
        /\ QueryFinished => outcome.kind # "return"

\* C17, amended: a read that times out ends nothing.  read_until returns
\* what was received, query goes on with it through every step that
\* remains, each made once (after the primary read the pause, the status
\* probe and the read of its reply), and ends as the status reply decides:
\* with StatusError only when that reply starts with '-'.
C17_TimeoutContinues ==
  caller = "top" =>
    \A i \in Reads :
      TimedOut(calls[i].data) =>
        /\ (calls[i].site = "primary" /\ pc \in {"q_status_read", "q_check", "idle"}) =>
             \E j \in CallsOf("write", "status") : j > i
        /\ pc # "idle" \/ QueryFinished
        /\ QueryFinished =>
             /\ CompleteProtocol
             /\ Cardinality(CallsOf("write", "primary")) = 1
             /\ Cardinality(CallsOf("write", "status")) = 1
             /\ outcome.kind \in {"return", "StatusError"}
             /\ outcome.kind = "StatusError" <=> StatusReplyStartsWithMinus

\* a command with a parameter whose status reply never came has returned
C17_Witness ==
  /\ QueryFinished
  /\ command = out_sp_00
  /\ param = IntParam(12)
  /\ calls[4] = ReadUntil("status", <<>>)
  /\ outcome = [kind |-> "return", value |-> NoneVal]

\* C18: reading the attribute status, which is query("status"), returns the
\* status message of the controller; when the controller answers with an
\* error message (text starting with '-'), that message is the value
\* returned to the caller.
C18_StatusReturnsError ==
  (QueryFinished /\ command = status_cmd /\ param = NoParam) =>
    \A i \in CallsOf("read_until", "primary") :
      StartsWith(Decode(calls[i].data), <<"-">>) =>
        /\ outcome.kind = "return"
        /\ ~outcome.value.isNone
        /\ StartsWith(outcome.value.s, <<"-">>)

\* C19: every invocation of query, whichever branch it takes, has paused
\* exactly once, for 50 ms, after the end of its primary step (the read of
\* the response without a parameter, the write with one) and immediately
\* before it wrote the status probe.
C19_OnePause ==
  QueryFinished =>
    /\ Cardinality(CallsOf("sleep", "pause")) = 1
    /\ \A k \in CallsOf("sleep", "pause") :
         /\ calls[k].ms = PauseMs
         /\ k > 1 /\ k < Len(calls)
         /\ calls[k - 1].site = "primary"
         /\ calls[k - 1].op = IF param = NoParam THEN "read_until" ELSE "write"
         /\ calls[k + 1] = Write("status", StatusProbe)

\* a fractional parameter with its fractional part cut off, in base 10
TruncatedText(p) ==
  (IF p.h <= -100 THEN <<"-">> ELSE <<>>) \o NatStr(Abs(p.h) \div 100)

\* C20: for a command without 'sp' in its name, a fractional parameter is
\* transmitted as a base-10 integer with its fractional part truncated: the
\* invocation does not fail because of the parameter, and the command and
\* the status probe are both written.
C20_FractionTruncated ==
  (QueryFinished /\ ~Contains(command, <<"s", "p">>) /\ param.t = "float") =>
    /\ outcome.kind \in {"return", "StatusError"}
    /\ CallsOf("write", "primary") = {1}
    /\ calls[1].data = Encode(command) \o SP \o Encode(TruncatedText(param)) \o CR
    /\ Cardinality(CallsOf("write", "status")) = 1

\* the lines the current run of log_csv has added to the file
RunLines == SubSeq(file, startLines + 1, Len(file))

\* what holds of the lines of a run that has ended with n cycles counted
RunIsHeaderAndRows(n) ==
  /\ outcome.kind \in {"StatusError", "KeyboardInterrupt"}
  /\ RunLines # <<>>
  /\ RunLines[1] = HeaderLine
  /\ \A i \in 2..Len(RunLines) :
       RunLines[i].kind = "row" /\ Len(RunLines[i].fields) = 5
  /\ Len(RunLines) - 1 = n

\* C21 as stated: no row of fewer or more than five fields is ever in the
\* file, and when a run of log_csv has ended, by StatusError in any of its
\* queries or by KeyboardInterrupt anywhere in a cycle, the lines it has
\* added are the header and after it only rows of five fields, one for each
\* cycle whose four queries all succeeded.
C21_RowPerSucceededCycle ==
  /\ \A i \in DOMAIN file : file[i].kind = "row" => Len(file[i].fields) = 5
  /\ (LogFinished /\ sigAt \in TryPcs \cup {"none"}) => RunIsHeaderAndRows(okCycles)

\* the cycles of the run whose four queries all succeeded and whose row was
\* appended: a KeyboardInterrupt raised after the fourth query has returned
\* and before line 572 has run ends the cycle before its row
CompletedCycles == IF sigAt = "l_write" THEN okCycles - 1 ELSE okCycles

\* C21, amended: no row of fewer or more than five fields is ever in the
\* file, and when a run of log_csv has ended, by StatusError in any of its
\* queries or by KeyboardInterrupt anywhere in a cycle, the lines it has
\* added are the header and after it only rows of five fields, one for each
\* cycle whose four queries all succeeded and that was not interrupted
\* before its row was appended: a cycle cut short leaves no row.
C21_CompleteRowsOnly ==
  /\ \A i \in DOMAIN file : file[i].kind = "row" => Len(file[i].fields) = 5
  /\ (LogFinished /\ sigAt \in TryPcs \cup {"none"}) =>
       RunIsHeaderAndRows(CompletedCycles)

\* a run was interrupted when its four queries had returned and the row
\* was not yet appended: it has added the header and nothing else
C21_Witness ==
  /\ LogFinished
  /\ outcome.kind = "KeyboardInterrupt"
  /\ sigAt = "l_write"
  /\ qidx = 5
  /\ okCycles = 1
  /\ RunLines = << HeaderLine >>

====
